---------------------------- MODULE Spec2Model ----------------------------
(***************************************************************************)
(* Model of tools/verify_map.py: the Watcom linker map verifier of the     *)
(* 3Com packet driver.  One run of main() is a sequential state machine:   *)
(* argument check, construction of MapVerifier, parse(), the six verify_*  *)
(* rules, the optional verbose dump, print_summary() and sys.exit().       *)
(*                                                                         *)
(* The map text is a sequence of lines.  A line is kept as the fields the  *)
(* parser's regular expressions capture from it (strings, as in the file); *)
(* every conversion the code applies to a field (int(x, 16), upper(),      *)
(* rstrip('_'), replace(), substring test) is computed on the string.      *)
(* Matches of a pattern across a line break are not modelled.              *)
(***************************************************************************)
EXTENDS Integers, Sequences, FiniteSets, TLC

VARIABLES
    argv,               \* sys.argv[1:], a sequence of strings
    fileState,          \* "missing" | "unreadable" | "ok": the path on disk
    fileText,           \* the lines of the file when it can be read
    pc,                 \* position of main()
    outcome,            \* "running" | "usage" | "fatal" | "crash" | "summary"
    build_mode,         \* MapVerifier.build_mode
    dgroup_max,         \* MapVerifier.dgroup_max
    dgroup_warn,        \* MapVerifier.dgroup_warn
    content,            \* MapVerifier.content
    errors,             \* MapVerifier.errors, a sequence of records
    warnings,           \* MapVerifier.warnings, a sequence of records
    dgroup_size,        \* MapVerifier.dgroup_size
    segments,           \* MapVerifier.segments, an insertion-ordered dict
    symbols,            \* MapVerifier.symbols, an insertion-ordered dict
    overlay_segments,   \* MapVerifier.overlay_segments, a set of strings
    sections,           \* the report sections written to stdout, in order
    composition,        \* the composition listing verify_dgroup_folding prints
    summary_headroom,   \* the headroom print_summary() reports, -1 before it
    success,            \* the value print_summary() returns
    exit_code,          \* the status passed to sys.exit(), -1 while running
    previous_run        \* what an earlier run over the same file ended with, if any

vars == <<argv, fileState, fileText, pc, outcome, build_mode, dgroup_max,
          dgroup_warn, content, errors, warnings, dgroup_size, segments,
          symbols, overlay_segments, sections, composition, summary_headroom,
          success, exit_code, previous_run>>

-----------------------------------------------------------------------------
(* Python string operations used by the verifier, computed on strings.     *)

CharAt(s, i) == SubSeq(s, i, i)

LowerCase == "abcdefghijklmnopqrstuvwxyz"
UpperCase == "ABCDEFGHIJKLMNOPQRSTUVWXYZ"

\* one character of str.upper()
UpperChar(c) ==
    IF \E i \in 1..Len(LowerCase) : CharAt(LowerCase, i) = c
    THEN CharAt(UpperCase, CHOOSE i \in 1..Len(LowerCase) : CharAt(LowerCase, i) = c)
    ELSE c

RECURSIVE upper(_)
\* str.upper()
upper(s) ==
    IF Len(s) = 0 THEN ""
    ELSE UpperChar(CharAt(s, 1)) \o upper(SubSeq(s, 2, Len(s)))

HexDigits == "0123456789ABCDEF"

\* the value of one hexadecimal digit, either case
HexDigitValue(c) ==
    (CHOOSE i \in 1..Len(HexDigits) : CharAt(HexDigits, i) = UpperChar(c)) - 1

RECURSIVE int16(_)
\* int(s, 16) for a string of hexadecimal digits
int16(s) ==
    IF Len(s) = 0 THEN 0
    ELSE int16(SubSeq(s, 1, Len(s) - 1)) * 16 + HexDigitValue(CharAt(s, Len(s)))

RECURSIVE rstrip(_, _)
\* s.rstrip(c): every trailing c is removed
rstrip(s, c) ==
    IF Len(s) > 0 /\ CharAt(s, Len(s)) = c
    THEN rstrip(SubSeq(s, 1, Len(s) - 1), c)
    ELSE s

\* sub in s
str_in(sub, s) ==
    \E i \in 1..(Len(s) - Len(sub) + 1) : SubSeq(s, i, i + Len(sub) - 1) = sub

RECURSIVE replace(_, _, _)
\* s.replace(old, new), old not empty: leftmost occurrences, not overlapping
replace(s, old, new) ==
    IF Len(s) < Len(old) THEN s
    ELSE IF SubSeq(s, 1, Len(old)) = old
         THEN new \o replace(SubSeq(s, Len(old) + 1, Len(s)), old, new)
         ELSE CharAt(s, 1) \o replace(SubSeq(s, 2, Len(s)), old, new)

-----------------------------------------------------------------------------
(* Thresholds, verify_map.py lines 31-48.                                  *)

DGROUP_MAX_SIZE == \h10000
DGROUP_RELEASE_MAX == \hE800
DGROUP_RELEASE_WARN == \hE000
DGROUP_PRODUCTION_MAX == \hE000
DGROUP_PRODUCTION_WARN == \hD800
DGROUP_DEBUG_MAX == \h10000
DGROUP_DEBUG_WARN == \hF200

(* The rule catalogs, verify_map.py lines 54-134.  REQUIRED_SYMBOLS is a    *)
(* dict: its items come in declaration order.                              *)

REQUIRED_SYMBOLS == <<
    [group |-> "packet_api",
     symbols |-> <<"packet_driver_isr", "_packet_driver_isr", "packet_api_entry">>],
    [group |-> "multiplex_api",
     symbols |-> <<"multiplex_handler_", "int2f_handler", "multiplex_handler",
                   "_int2f_isr">>],
    [group |-> "pci_shim",
     symbols |-> <<"_pci_shim_isr", "pci_shim_handler", "pci_shim_handler_">>],
    [group |-> "nic_irq",
     symbols |-> <<"nic_irq_handler", "_nic_isr", "hardware_handle_3c509b_irq",
                   "hardware_handle_3c515_irq">>],
    [group |-> "lifecycle",
     symbols |-> <<"install_packet_api_vector", "install_interrupts",
                   "initialize_tsr_defense">>] >>

REQUIRED_ROOT_SEGMENTS == <<
    [name |-> "_TEXT",
     description |-> "Main ASM modules (pktapi, nicirq, tsrcom, pciisr)"],
    [name |-> "rt_stubs_TEXT",
     description |-> "Consolidated runtime stubs (replaces 15 *_rt modules)"] >>

OPTIONAL_SYMBOLS == <<
    "g_3c509b_ops", "g_3c515_ops", "_3c509b_ops",
    "_3c509b_send_packet_", "_3c509b_receive_packet_",
    "_3c515_send_packet_", "_3c515_receive_packet_",
    "log_info_", "log_error_", "log_warning_", "log_debug_",
    "nic_3c509_handler", "nic_3c515_handler",
    "pcmcia_irq_isr", "pcmcia_isr_install", "pcmcia_isr_uninstall",
    "_set_chain_vector", "chain_to_bios",
    "queue_deferred_work", "deferred_work_queue_process",
    "validate_interrupt_vectors", "safe_port_read" >>

FORBIDDEN_IN_OVERLAY == << "rt_stubs.obj", "3cvortex.obj", "3cboom.obj" >>

\* the class alternatives of segment_pattern, line 186
SEGMENT_CLASSES ==
    {"CODE", "DATA", "BSS", "STACK", "BEGDATA", "FAR_DATA", "EMU", "CONST", "_OVLCODE"}


-----------------------------------------------------------------------------
(* Lines of the map text: the fields the parser's patterns capture.        *)
(*   group line    "name seg:off size"                                     *)
(*   segment line  "name class group seg:off size"                         *)
(*   symbol line   "seg:off[*+] name"                                      *)
(*   overlay line  "Overlay section N address seg:"                        *)
(*   other         a line none of the patterns recognises                  *)

Line(kind, name, class, group, seg, off, size) ==
    [kind |-> kind, name |-> name, class |-> class, group |-> group,
     seg |-> seg, off |-> off, size |-> size]

GroupLine(name, seg, off, size) == Line("group", name, "", "", seg, off, size)
SegmentLine(name, class, group, seg, off, size) ==
    Line("segment", name, class, group, seg, off, size)
SymbolLine(seg, off, name) == Line("symbol", name, "", "", seg, off, "")
OverlayLine(seg) == Line("overlay", "", "", "", seg, "", "")
OtherLine == Line("other", "", "", "", "", "", "")

(* Python dicts keep insertion order; assigning to a key that is present   *)
(* replaces the value in place.  A dict is a sequence of [key, value].     *)

DictHas(d, k) == \E i \in 1..Len(d) : d[i].key = k
DictGet(d, k) == d[CHOOSE i \in 1..Len(d) : d[i].key = k].value
\* DictSet keeping the value a key already has (first write wins)
DictSet_keep_first(d, k, v) ==
    IF DictHas(d, k)
    THEN d
    ELSE Append(d, [key |-> k, value |-> v])

DictSet(d, k, v) ==
    IF DictHas(d, k)
    THEN [i \in 1..Len(d) |-> IF d[i].key = k THEN [key |-> k, value |-> v] ELSE d[i]]
    ELSE Append(d, [key |-> k, value |-> v])

\* s ends with the string t
EndsWith(s, t) == Len(s) >= Len(t) /\ SubSeq(s, Len(s) - Len(t) + 1, Len(s)) = t

\* the pattern of _parse_dgroup_size, an unanchored search: it matches a group
\* line of DGROUP and also the "DGROUP seg:off size" tail of a segment line
DgroupPatternMatches(l) ==
    \/ l.kind = "group" /\ EndsWith(l.name, "DGROUP")
    \/ l.kind = "segment" /\ EndsWith(l.group, "DGROUP")

\* _parse_dgroup_size: re.search takes the first match, if any
parse_dgroup_size(text) ==
    IF \E i \in 1..Len(text) : DgroupPatternMatches(text[i])
    THEN int16(text[CHOOSE i \in 1..Len(text) :
                      /\ DgroupPatternMatches(text[i])
                      /\ \A j \in 1..(i - 1) : ~DgroupPatternMatches(text[j])].size)
    ELSE 0

\* segment_pattern: the class must be one of the enumeration
SegmentPatternMatches(l) == l.kind = "segment" /\ l.class \in SEGMENT_CLASSES

\* the dict entry _parse_all_segments stores for one matching line
SegmentInfo(l) ==
    [class |-> l.class, group |-> l.group,
     address |-> l.seg \o ":" \o l.off, size |-> int16(l.size)]

RECURSIVE parse_all_segments(_, _)
\* _parse_all_segments: finditer in text order, self.segments[seg_name] = {...}
parse_all_segments(text, segs) ==
    IF Len(text) = 0 THEN segs
    ELSE parse_all_segments(Tail(text),
            IF SegmentPatternMatches(Head(text))
            THEN DictSet(segs, Head(text).name, SegmentInfo(Head(text)))
            ELSE segs)

SymbolPatternMatches(l) == l.kind = "symbol"

\* the dict entry _parse_symbol_table stores for one matching line
SymbolInfo(l) ==
    [segment |-> l.seg, offset |-> l.off, full_addr |-> l.seg \o ":" \o l.off]

RECURSIVE parse_symbol_table(_, _)
\* _parse_symbol_table: finditer in text order, self.symbols[symbol] = {...}
parse_symbol_table(text, syms) ==
    IF Len(text) = 0 THEN syms
    ELSE parse_symbol_table(Tail(text),
            IF SymbolPatternMatches(Head(text))
            THEN DictSet(syms, Head(text).name, SymbolInfo(Head(text)))
            ELSE syms)

\* _identify_overlay_segments: the upper-cased segment of every overlay line
identify_overlay_segments(text) ==
    {upper(text[i].seg) : i \in {j \in 1..Len(text) : text[j].kind = "overlay"}}

-----------------------------------------------------------------------------
(* RootClassifier, verify_map.py lines 229-239.                            *)

\* is_symbol_in_overlay comparing the segment as written, without .upper()
is_symbol_in_overlay_exact(symbol_info) == symbol_info.segment \in overlay_segments

\* _is_symbol_in_overlay
is_symbol_in_overlay(symbol_info) == upper(symbol_info.segment) \in overlay_segments

\* is_segment_root looking at the class alone
is_segment_root_class_only(seg_name) ==
    IF ~DictHas(segments, seg_name) THEN "None"
    ELSE IF DictGet(segments, seg_name).class = "CODE" THEN "True" ELSE "False"

\* _is_segment_root: "None" stands for Python's None
is_segment_root(seg_name) ==
    IF ~DictHas(segments, seg_name) THEN "None"
    ELSE IF DictGet(segments, seg_name).group = "AUTO"
            /\ DictGet(segments, seg_name).class = "CODE"
         THEN "True" ELSE "False"

-----------------------------------------------------------------------------
(* Error and warning records.  The verifier appends formatted strings; a   *)
(* record keeps the parts of the message that vary: the rule that wrote    *)
(* it, the kind of message, the subject it names, and the values printed.  *)

Rec(rule, kind, subject, detail, nums) ==
    [rule |-> rule, kind |-> kind, subject |-> subject, detail |-> detail,
     nums |-> nums]

(* Rule a, verify_dgroup_size, lines 241-265.                              *)

\* dgroup_size_branch with the limit itself still allowed (> for >=)
dgroup_size_branch_gt(size, max, warn) ==
    IF size = 0 THEN "no_size"
    ELSE IF size > max THEN "exceeds"
    ELSE IF size >= warn THEN "warning_zone"
    ELSE "ok"

\* the branch verify_dgroup_size takes
dgroup_size_branch(size, max, warn) ==
    IF size = 0 THEN "no_size"
    ELSE IF size >= max THEN "exceeds"
    ELSE IF size >= warn THEN "warning_zone"
    ELSE "ok"

\* headroom_of measured against the limit of the build mode
headroom_of_mode(size) == dgroup_max - size

\* headroom = DGROUP_MAX_SIZE - self.dgroup_size, lines 250 and 387
headroom_of(size) == DGROUP_MAX_SIZE - size

verify_dgroup_size_errors ==
    IF dgroup_size_branch(dgroup_size, dgroup_max, dgroup_warn) = "exceeds"
    THEN Append(errors, Rec("dgroup_size", "exceeds", "DGROUP", build_mode,
                            <<dgroup_size, dgroup_max>>))
    ELSE errors

verify_dgroup_size_warnings ==
    CASE dgroup_size_branch(dgroup_size, dgroup_max, dgroup_warn) = "no_size" ->
            Append(warnings, Rec("dgroup_size", "no_size", "DGROUP", "", <<>>))
      [] dgroup_size_branch(dgroup_size, dgroup_max, dgroup_warn) = "warning_zone" ->
            Append(warnings, Rec("dgroup_size", "warning_zone", "DGROUP", build_mode,
                                 <<dgroup_size, headroom_of(dgroup_size)>>))
      [] OTHER -> warnings

(* Rule b, verify_required_symbols, lines 267-297.                         *)

RECURSIVE scan_symbol_list_first(_, _)
\* scan_symbol_list leaving the loop at the first alias found, in overlay or not
scan_symbol_list_first(symbol_list, st) ==
    IF Len(symbol_list) = 0 THEN st
    ELSE IF DictHas(symbols, Head(symbol_list))
         THEN [found_any |-> TRUE,
               found_in_root |-> ~is_symbol_in_overlay(DictGet(symbols, Head(symbol_list))),
               found_symbol |-> Head(symbol_list)]
         ELSE scan_symbol_list_first(Tail(symbol_list), st)

RECURSIVE scan_symbol_list(_, _)
\* the inner loop, lines 276-282: st holds found_any, found_in_root, found_symbol
scan_symbol_list(symbol_list, st) ==
    IF Len(symbol_list) = 0 THEN st
    ELSE IF DictHas(symbols, Head(symbol_list))
         THEN IF ~is_symbol_in_overlay(DictGet(symbols, Head(symbol_list)))
              THEN [found_any |-> TRUE, found_in_root |-> TRUE,
                    found_symbol |-> Head(symbol_list)]
              ELSE scan_symbol_list(Tail(symbol_list),
                       [found_any |-> TRUE, found_in_root |-> st.found_in_root,
                        found_symbol |-> Head(symbol_list)])
         ELSE scan_symbol_list(Tail(symbol_list), st)

\* lines 272-282 for one group
scan_group(symbol_list) ==
    scan_symbol_list(symbol_list,
        [found_any |-> FALSE, found_in_root |-> FALSE, found_symbol |-> ""])

\* required_group_errors with the second test an if of its own, not an elif
required_group_errors_no_elif(entry) ==
    (IF ~scan_group(entry.symbols).found_any
     THEN <<Rec("required_symbols", "no_symbol", entry.group, "", <<>>)>>
     ELSE <<>>)
    \o (IF ~scan_group(entry.symbols).found_in_root
        THEN <<Rec("required_symbols", "in_overlay", entry.group,
                   scan_group(entry.symbols).found_symbol, <<>>)>>
        ELSE <<>>)

\* lines 284-297: the errors one group adds
required_group_errors(entry) ==
    IF ~scan_group(entry.symbols).found_any
    THEN <<Rec("required_symbols", "no_symbol", entry.group, "", <<>>)>>
    ELSE IF ~scan_group(entry.symbols).found_in_root
         THEN <<Rec("required_symbols", "in_overlay", entry.group,
                    scan_group(entry.symbols).found_symbol, <<>>)>>
         ELSE <<>>

RECURSIVE verify_required_symbols(_, _)
\* the loop over REQUIRED_SYMBOLS.items(), line 271
verify_required_symbols(groups, errs) ==
    IF Len(groups) = 0 THEN errs
    ELSE verify_required_symbols(Tail(groups), errs \o required_group_errors(Head(groups)))

(* Rule c, verify_required_segments, lines 299-319.                        *)

\* required_segment_errors testing "not is_root", which None satisfies too
required_segment_errors_none_fails(entry) ==
    IF is_segment_root(entry.name) # "True"
    THEN <<Rec("required_segments", "not_in_root", entry.name, "", <<>>)>>
    ELSE <<>>

required_segment_errors(entry) ==
    IF is_segment_root(entry.name) = "False"
    THEN <<Rec("required_segments", "not_in_root", entry.name,
               "group=" \o DictGet(segments, entry.name).group
                 \o ", class=" \o DictGet(segments, entry.name).class, <<>>)>>
    ELSE <<>>

required_segment_warnings(entry) ==
    IF is_segment_root(entry.name) = "None"
    THEN <<Rec("required_segments", "not_found", entry.name, entry.description, <<>>)>>
    ELSE <<>>

\* verify_required_segments_errors leaving the loop after the first entry
verify_required_segments_errors_head_only(entries, errs) ==
    IF Len(entries) = 0 THEN errs
    ELSE errs \o required_segment_errors(Head(entries))

RECURSIVE verify_required_segments_errors(_, _)
verify_required_segments_errors(entries, errs) ==
    IF Len(entries) = 0 THEN errs
    ELSE verify_required_segments_errors(Tail(entries),
             errs \o required_segment_errors(Head(entries)))

RECURSIVE verify_required_segments_warnings(_, _)
verify_required_segments_warnings(entries, warns) ==
    IF Len(entries) = 0 THEN warns
    ELSE verify_required_segments_warnings(Tail(entries),
             warns \o required_segment_warnings(Head(entries)))

(* Rule d, verify_optional_symbols, lines 321-340.                         *)

\* line 330: [symbol, symbol.rstrip('_'), symbol + '_']
variants(symbol) == <<symbol, rstrip(symbol, "_"), symbol \o "_">>

RECURSIVE probe_variants_no_break(_)
\* probe_variants with the break inside the overlay branch only
probe_variants_no_break(vs) ==
    IF Len(vs) = 0 THEN <<>>
    ELSE IF DictHas(symbols, Head(vs)) /\ is_symbol_in_overlay(DictGet(symbols, Head(vs)))
         THEN <<Rec("optional_symbols", "in_overlay", Head(vs), "", <<>>)>>
         ELSE probe_variants_no_break(Tail(vs))

RECURSIVE probe_variants(_)
\* lines 330-338: the first variant in the symbol table decides, then break
probe_variants(vs) ==
    IF Len(vs) = 0 THEN <<>>
    ELSE IF DictHas(symbols, Head(vs))
         THEN IF is_symbol_in_overlay(DictGet(symbols, Head(vs)))
              THEN <<Rec("optional_symbols", "in_overlay", Head(vs), "", <<>>)>>
              ELSE <<>>
         ELSE probe_variants(Tail(vs))

optional_symbol_errors(symbol) == probe_variants(variants(symbol))

RECURSIVE verify_optional_symbols(_, _)
verify_optional_symbols(names, errs) ==
    IF Len(names) = 0 THEN errs
    ELSE verify_optional_symbols(Tail(names), errs \o optional_symbol_errors(Head(names)))

(* Rule e, verify_forbidden_in_overlay, lines 342-357.                     *)

\* lines 347-348: obj.replace('.obj', '') + "_TEXT"
forbidden_seg_name(obj) == replace(obj, ".obj", "") \o "_TEXT"

\* forbidden_errors without the test of the class
forbidden_errors_any_class(obj) ==
    IF DictHas(segments, forbidden_seg_name(obj))
    THEN <<Rec("forbidden_in_overlay", "in_overlay", obj, "", <<>>)>>
    ELSE <<>>

forbidden_errors(obj) ==
    IF DictHas(segments, forbidden_seg_name(obj))
       /\ DictGet(segments, forbidden_seg_name(obj)).class = "_OVLCODE"
    THEN <<Rec("forbidden_in_overlay", "in_overlay", obj, "", <<>>)>>
    ELSE <<>>

RECURSIVE verify_forbidden_in_overlay(_, _)
verify_forbidden_in_overlay(objs, errs) ==
    IF Len(objs) = 0 THEN errs
    ELSE verify_forbidden_in_overlay(Tail(objs), errs \o forbidden_errors(Head(objs)))

(* Rule f, verify_dgroup_folding, lines 359-379.                           *)

RECURSIVE dgroup_segments_of(_)
\* lines 363-366: (seg_name, size) of the DGROUP segments, in dict order
dgroup_segments_of(segs) ==
    IF Len(segs) = 0 THEN <<>>
    ELSE (IF Head(segs).value.group = "DGROUP"
          THEN <<[name |-> Head(segs).key, size |-> Head(segs).value.size]>>
          ELSE <<>>) \o dgroup_segments_of(Tail(segs))

\* line 370
has_overlay_marker(seg_name) == str_in("OVL_", seg_name) \/ str_in("INIT_", seg_name)

RECURSIVE folding_errors_per_marker(_)
\* folding_errors with one test, and one error, per marker
folding_errors_per_marker(dsegs) ==
    IF Len(dsegs) = 0 THEN <<>>
    ELSE (IF str_in("OVL_", Head(dsegs).name)
          THEN <<Rec("dgroup_folding", "folded", Head(dsegs).name, "", <<>>)>>
          ELSE <<>>)
         \o (IF str_in("INIT_", Head(dsegs).name)
             THEN <<Rec("dgroup_folding", "folded", Head(dsegs).name, "", <<>>)>>
             ELSE <<>>)
         \o folding_errors_per_marker(Tail(dsegs))

RECURSIVE folding_errors(_)
\* lines 369-373
folding_errors(dsegs) ==
    IF Len(dsegs) = 0 THEN <<>>
    ELSE (IF has_overlay_marker(Head(dsegs).name)
          THEN <<Rec("dgroup_folding", "folded", Head(dsegs).name, "", <<>>)>>
          ELSE <<>>) \o folding_errors(Tail(dsegs))

\* x put into a list sorted by descending size, after the entries not smaller
RECURSIVE insert_by_size(_, _)
insert_by_size(sorted, x) ==
    IF Len(sorted) = 0 THEN <<x>>
    ELSE IF Head(sorted).size >= x.size
         THEN <<Head(sorted)>> \o insert_by_size(Tail(sorted), x)
         ELSE <<x>> \o sorted

RECURSIVE sort_by_size_desc(_, _)
\* line 376: list.sort(key=lambda x: -x[1]), a stable sort
sort_by_size_desc(dsegs, acc) ==
    IF Len(dsegs) = 0 THEN acc
    ELSE sort_by_size_desc(Tail(dsegs), insert_by_size(acc, Head(dsegs)))

\* composition_listing without the sort of line 376
composition_listing_unsorted(dsegs) ==
    SubSeq(dsegs, 1, IF Len(dsegs) < 5 THEN Len(dsegs) ELSE 5)

\* line 378: dgroup_segments[:5]
composition_listing(dsegs) ==
    SubSeq(sort_by_size_desc(dsegs, <<>>), 1,
           IF Len(dsegs) < 5 THEN Len(dsegs) ELSE 5)

(* print_summary, lines 381-409, and main's exit status, line 466.         *)

\* summary_result failing a run that has warnings
summary_result_strict(errs, warns) == Len(errs) = 0 /\ Len(warns) = 0

\* line 409: return len(self.errors) == 0
summary_result(errs, warns) == Len(errs) = 0

\* line 466: sys.exit(0 if success else 1)
exit_status(ok) == IF ok THEN 0 ELSE 1

-----------------------------------------------------------------------------
(* main's choice of build mode and MapVerifier.__init__.                   *)

InArgv(flag) == \E i \in 1..Len(argv) : argv[i] = flag

\* selected_build_mode looking for --release before --production
selected_build_mode_release_first ==
    IF InArgv("--release") THEN "release"
    ELSE IF InArgv("--production") THEN "production"
    ELSE "debug"

\* main, lines 441-447
selected_build_mode ==
    IF InArgv("--production") THEN "production"
    ELSE IF InArgv("--release") THEN "release"
    ELSE "debug"

\* init_dgroup_max with the limits of production and release exchanged
init_dgroup_max_swapped(mode) ==
    IF mode = "production" THEN DGROUP_RELEASE_MAX
    ELSE IF mode = "release" THEN DGROUP_PRODUCTION_MAX
    ELSE DGROUP_DEBUG_MAX

\* __init__, lines 151-159
init_dgroup_max(mode) ==
    IF mode = "production" THEN DGROUP_PRODUCTION_MAX
    ELSE IF mode = "release" THEN DGROUP_RELEASE_MAX
    ELSE DGROUP_DEBUG_MAX

\* init_dgroup_warn with the default warning size, line 47, for every mode
init_dgroup_warn_default(mode) == DGROUP_DEBUG_WARN

init_dgroup_warn(mode) ==
    IF mode = "production" THEN DGROUP_PRODUCTION_WARN
    ELSE IF mode = "release" THEN DGROUP_RELEASE_WARN
    ELSE DGROUP_DEBUG_WARN

-----------------------------------------------------------------------------
(* The inputs of a run: the command line and the file on disk.             *)

MaxLines == 3       \* longest text drawn from a pool of lines
SizeSlack == 1      \* sizes are taken this far around every threshold

MapPath == "build/3cpd.map"

ArgvPool ==
    { <<>>,
      <<MapPath>>,
      <<MapPath, "--debug">>,
      <<MapPath, "--release">>,
      <<MapPath, "--production">>,
      <<MapPath, "--verbose">>,
      <<MapPath, "--bogus">>,
      <<MapPath, "--release", "--production">>,
      <<MapPath, "--production", "--release", "--verbose">>,
      <<MapPath, "--debug", "--release">>,
      <<MapPath, "--release", "--debug">>,
      <<MapPath, "--production", "--debug">> }

RECURSIVE ToHex(_)
\* the hexadecimal digits of n, as a linker writes a size
ToHex(n) ==
    IF n < 16 THEN CharAt(HexDigits, n + 1)
    ELSE ToHex(n \div 16) \o CharAt(HexDigits, (n % 16) + 1)

SizePool ==
    {0, 1, \hE900} \cup
    { t + d : t \in {DGROUP_PRODUCTION_WARN, DGROUP_PRODUCTION_MAX, DGROUP_RELEASE_MAX,
                     DGROUP_DEBUG_WARN, DGROUP_MAX_SIZE},
              d \in (0 - SizeSlack)..SizeSlack }

SizeTexts == { <<GroupLine("DGROUP", "2000", "0000", ToHex(n))>> : n \in SizePool }

ReqSymPool ==
    { SymbolLine("1a2b", "0010", "packet_driver_isr"),
      SymbolLine("0000", "0020", "_packet_driver_isr"),
      SymbolLine("1A2B", "0030", "packet_api_entry"),
      OverlayLine("1a2b") }

OptSymPool ==
    { SymbolLine("0000", "0100", "log_info_"),
      SymbolLine("1A2B", "0200", "log_info"),
      SymbolLine("1a2b", "0300", "safe_port_read_"),
      OverlayLine("1A2B") }

RootSegPool ==
    { SegmentLine("_TEXT", "CODE", "DGROUP", "0000", "0000", "1F00"),
      SegmentLine("rt_stubs_TEXT", "CODE", "AUTO", "01F0", "0000", "0400"),
      SegmentLine("rt_stubs_TEXT", "_OVLCODE", "AUTO", "1A2B", "0000", "0400"),
      SegmentLine("3cvortex_TEXT", "_OVLCODE", "OVL1", "1A2B", "0400", "0200") }

FoldPool ==
    { SegmentLine("_DATA", "DATA", "DGROUP", "2000", "0000", "0200"),
      SegmentLine("OVL_INIT_DATA", "DATA", "DGROUP", "2000", "0200", "0040"),
      SegmentLine("INIT_DATA", "BSS", "DGROUP", "2000", "0240", "0080"),
      SegmentLine("OVL_DATA", "DATA", "OVL1", "1A2B", "0600", "0040") }

\* the sequences over pool of length at most n
SeqsUpTo(pool, n) == UNION { [1..k -> pool] : k \in 0..n }

\* a map in which every rule passes
CleanMap ==
    << GroupLine("DGROUP", "2000", "0000", "0000c000"),
       SegmentLine("_TEXT", "CODE", "AUTO", "0000", "0000", "1F00"),
       SegmentLine("rt_stubs_TEXT", "CODE", "AUTO", "01F0", "0000", "0400"),
       OtherLine,
       SymbolLine("0000", "0010", "packet_driver_isr"),
       SymbolLine("0000", "0040", "int2f_handler"),
       SymbolLine("0000", "0080", "_pci_shim_isr"),
       SymbolLine("0000", "00c0", "_nic_isr"),
       SymbolLine("0000", "0100", "install_interrupts"),
       SymbolLine("1A2B", "0000", "init_3c509b_"),
       OverlayLine("1A2B") >>

\* CleanMap without its group and segment lines: warnings only
WarnMap == SubSeq(CleanMap, 4, Len(CleanMap))

\* a map in which every rule records an error
BadMap ==
    << GroupLine("DGROUP", "2000", "0000", "00010400"),
       SegmentLine("_TEXT", "DATA", "AUTO", "0000", "0000", "1F00"),
       SegmentLine("rt_stubs_TEXT", "_OVLCODE", "OVL1", "1A2B", "0000", "0400"),
       SegmentLine("OVL_INIT_DATA", "DATA", "DGROUP", "2000", "0200", "0040"),
       OverlayLine("1a2b"),
       SymbolLine("1A2B", "0010", "packet_driver_isr"),
       SymbolLine("1A2B", "0100", "log_info_") >>

\* a map in which a segment name and a symbol name come twice, with other data
DupMap ==
    << SegmentLine("rt_stubs_TEXT", "_OVLCODE", "OVL1", "1A2B", "0000", "0400"),
       SymbolLine("1A2B", "0010", "packet_driver_isr"),
       OverlayLine("1A2B"),
       SegmentLine("_TEXT", "CODE", "AUTO", "0000", "0000", "1F00"),
       SegmentLine("rt_stubs_TEXT", "CODE", "AUTO", "01F0", "0000", "0420"),
       SymbolLine("0000", "0050", "packet_driver_isr") >>

\* a map with more DGROUP segments than the composition listing shows
BigDgroupMap ==
    << GroupLine("DGROUP", "2000", "0000", "00003000"),
       SegmentLine("_TEXT", "CODE", "AUTO", "0000", "0000", "1F00"),
       SegmentLine("CONST", "DATA", "DGROUP", "2000", "0000", "0100"),
       SegmentLine("CONST2", "DATA", "DGROUP", "2000", "0100", "0040"),
       SegmentLine("_DATA", "DATA", "DGROUP", "2000", "0140", "0800"),
       SegmentLine("XIB", "DATA", "DGROUP", "2000", "0940", "0002"),
       SegmentLine("_BSS", "BSS", "DGROUP", "2000", "0950", "1000"),
       SegmentLine("YIB", "DATA", "DGROUP", "2000", "1950", "0100"),
       SegmentLine("STACK", "STACK", "DGROUP", "2000", "1a50", "0400") >>

\* a map in which rt_stubs_TEXT is code of an overlay group, not of class _OVLCODE
MisgroupedStubsMap ==
    << SegmentLine("_TEXT", "CODE", "AUTO", "0000", "0000", "1F00"),
       SegmentLine("rt_stubs_TEXT", "CODE", "OVL1", "1A2B", "0000", "0400"),
       OverlayLine("1A2B") >>

SampleMaps == {CleanMap, WarnMap, BadMap, DupMap, BigDgroupMap, MisgroupedStubsMap}

Texts ==
    SizeTexts \cup SampleMaps \cup SeqsUpTo(ReqSymPool, MaxLines)
      \cup SeqsUpTo(OptSymPool, MaxLines) \cup SeqsUpTo(RootSegPool, MaxLines)
      \cup SeqsUpTo(FoldPool, MaxLines)

-----------------------------------------------------------------------------
(* The run.                                                                *)

Init ==
    /\ argv \in ArgvPool
    /\ fileState \in {"missing", "unreadable", "ok"}
    /\ fileText \in (IF fileState = "ok" THEN Texts ELSE {<<>>})
    /\ pc = "main"
    /\ outcome = "running"
    /\ build_mode = ""
    /\ dgroup_max = 0
    /\ dgroup_warn = 0
    /\ content = <<>>
    /\ errors = <<>>
    /\ warnings = <<>>
    /\ dgroup_size = 0
    /\ segments = <<>>
    /\ symbols = <<>>
    /\ overlay_segments = {}
    /\ sections = <<>>
    /\ composition = <<>>
    /\ summary_headroom = -1
    /\ success = FALSE
    /\ exit_code = -1
    /\ previous_run = <<>>

\* main, lines 423-438: no map file argument
Usage ==
    /\ pc = "main"
    /\ Len(argv) < 1
    /\ sections' = Append(sections, "Usage")
    /\ outcome' = "usage"
    /\ exit_code' = 1
    /\ pc' = "exit"
    /\ UNCHANGED <<previous_run, summary_headroom, argv, fileState, fileText, build_mode, dgroup_max, dgroup_warn,
                   content, errors, warnings, dgroup_size, segments, symbols,
                   overlay_segments, composition, success>>

\* main, lines 440-449, and MapVerifier.__init__, lines 138-159
Construct ==
    /\ pc = "main"
    /\ Len(argv) >= 1
    /\ build_mode' = selected_build_mode
    /\ dgroup_max' = init_dgroup_max(selected_build_mode)
    /\ dgroup_warn' = init_dgroup_warn(selected_build_mode)
    /\ content' = <<>>
    /\ errors' = <<>>
    /\ warnings' = <<>>
    /\ dgroup_size' = 0
    /\ segments' = <<>>
    /\ symbols' = <<>>
    /\ overlay_segments' = {}
    /\ pc' = "parse"
    /\ UNCHANGED <<previous_run, summary_headroom, argv, fileState, fileText, outcome, sections, composition,
                   success, exit_code>>

\* parse, lines 163-165, and main, lines 451-453: the file does not exist
ParseNotFound ==
    /\ pc = "parse"
    /\ fileState = "missing"
    /\ errors' = Append(errors, Rec("parse", "map_not_found", argv[1], "", <<>>))
    /\ sections' = Append(sections, "Failed to parse map file")
    /\ outcome' = "fatal"
    /\ exit_code' = 1
    /\ pc' = "exit"
    /\ UNCHANGED <<previous_run, summary_headroom, argv, fileState, fileText, build_mode, dgroup_max, dgroup_warn,
                   content, warnings, dgroup_size, segments, symbols,
                   overlay_segments, composition, success>>

\* parse, line 167: read_text() raises on a path that exists and cannot be read
\* as text; nothing catches it and the interpreter ends the process, status 1
ParseUnreadable ==
    /\ pc = "parse"
    /\ fileState = "unreadable"
    /\ outcome' = "crash"
    /\ exit_code' = 1
    /\ pc' = "exit"
    /\ UNCHANGED <<previous_run, summary_headroom, argv, fileState, fileText, build_mode, dgroup_max, dgroup_warn,
                   content, errors, warnings, dgroup_size, segments, symbols,
                   overlay_segments, sections, composition, success>>

\* parse, lines 167-172
Parse ==
    /\ pc = "parse"
    /\ fileState = "ok"
    /\ content' = fileText
    /\ dgroup_size' = parse_dgroup_size(fileText)
    /\ segments' = parse_all_segments(fileText, segments)
    /\ symbols' = parse_symbol_table(fileText, symbols)
    /\ overlay_segments' = overlay_segments \cup identify_overlay_segments(fileText)
    /\ pc' = "size"
    /\ UNCHANGED <<previous_run, summary_headroom, argv, fileState, fileText, outcome, build_mode, dgroup_max,
                   dgroup_warn, errors, warnings, sections, composition, success,
                   exit_code>>

\* verify_dgroup_size, lines 241-265
VerifyDgroupSize ==
    /\ pc = "size"
    /\ sections' = Append(sections, "Checking DGROUP Size")
    /\ errors' = verify_dgroup_size_errors
    /\ warnings' = verify_dgroup_size_warnings
    /\ pc' = "reqsym"
    /\ UNCHANGED <<previous_run, summary_headroom, argv, fileState, fileText, outcome, build_mode, dgroup_max,
                   dgroup_warn, content, dgroup_size, segments, symbols,
                   overlay_segments, composition, success, exit_code>>

\* verify_required_symbols, lines 267-297
VerifyRequiredSymbols ==
    /\ pc = "reqsym"
    /\ sections' = Append(sections, "Checking Required Symbols")
    /\ errors' = verify_required_symbols(REQUIRED_SYMBOLS, errors)
    /\ pc' = "reqseg"
    /\ UNCHANGED <<previous_run, summary_headroom, argv, fileState, fileText, outcome, build_mode, dgroup_max,
                   dgroup_warn, content, warnings, dgroup_size, segments, symbols,
                   overlay_segments, composition, success, exit_code>>

\* VerifyRequiredSegments in a main that stops checking after the first failure
VerifyRequiredSegments_short ==
    /\ pc = "reqseg"
    /\ sections' = Append(sections, "Checking Required ROOT Segments")
    /\ errors' = verify_required_segments_errors(REQUIRED_ROOT_SEGMENTS, errors)
    /\ warnings' = verify_required_segments_warnings(REQUIRED_ROOT_SEGMENTS, warnings)
    /\ pc' = IF Len(errors) > 0 THEN "summary" ELSE "optsym"
    /\ UNCHANGED <<previous_run, summary_headroom, argv, fileState, fileText, outcome, build_mode,
                   dgroup_max, dgroup_warn, content, dgroup_size, segments, symbols,
                   overlay_segments, composition, success, exit_code>>

\* verify_required_segments, lines 299-319
VerifyRequiredSegments ==
    /\ pc = "reqseg"
    /\ sections' = Append(sections, "Checking Required ROOT Segments")
    /\ errors' = verify_required_segments_errors(REQUIRED_ROOT_SEGMENTS, errors)
    /\ warnings' = verify_required_segments_warnings(REQUIRED_ROOT_SEGMENTS, warnings)
    /\ pc' = "optsym"
    /\ UNCHANGED <<previous_run, summary_headroom, argv, fileState, fileText, outcome, build_mode, dgroup_max,
                   dgroup_warn, content, dgroup_size, segments, symbols,
                   overlay_segments, composition, success, exit_code>>

\* verify_optional_symbols, lines 321-340
VerifyOptionalSymbols ==
    /\ pc = "optsym"
    /\ sections' = Append(sections, "Checking Optional Symbols")
    /\ errors' = verify_optional_symbols(OPTIONAL_SYMBOLS, errors)
    /\ pc' = "forbidden"
    /\ UNCHANGED <<previous_run, summary_headroom, argv, fileState, fileText, outcome, build_mode, dgroup_max,
                   dgroup_warn, content, warnings, dgroup_size, segments, symbols,
                   overlay_segments, composition, success, exit_code>>

\* verify_forbidden_in_overlay, lines 342-357
VerifyForbiddenInOverlay ==
    /\ pc = "forbidden"
    /\ sections' = Append(sections, "Checking Forbidden Overlay Placements")
    /\ errors' = verify_forbidden_in_overlay(FORBIDDEN_IN_OVERLAY, errors)
    /\ pc' = "folding"
    /\ UNCHANGED <<previous_run, summary_headroom, argv, fileState, fileText, outcome, build_mode, dgroup_max,
                   dgroup_warn, content, warnings, dgroup_size, segments, symbols,
                   overlay_segments, composition, success, exit_code>>

\* VerifyDgroupFolding taking the DGROUP segments out of the segment table
VerifyDgroupFolding_pops ==
    /\ pc = "folding"
    /\ sections' = Append(sections, "Checking DGROUP Composition")
    /\ errors' = errors \o folding_errors(dgroup_segments_of(segments))
    /\ composition' = composition_listing(dgroup_segments_of(segments))
    /\ segments' = SelectSeq(segments, LAMBDA e : e.value.group # "DGROUP")
    /\ pc' = IF InArgv("--verbose") THEN "verbose" ELSE "summary"
    /\ UNCHANGED <<previous_run, summary_headroom, argv, fileState, fileText, outcome, build_mode, dgroup_max,
                   dgroup_warn, content, warnings, dgroup_size, symbols,
                   overlay_segments, success, exit_code>>

\* verify_dgroup_folding, lines 359-379, and main's test of --verbose, line 462
VerifyDgroupFolding ==
    /\ pc = "folding"
    /\ sections' = Append(sections, "Checking DGROUP Composition")
    /\ errors' = errors \o folding_errors(dgroup_segments_of(segments))
    /\ composition' = composition_listing(dgroup_segments_of(segments))
    /\ pc' = IF InArgv("--verbose") THEN "verbose" ELSE "summary"
    /\ UNCHANGED <<previous_run, summary_headroom, argv, fileState, fileText, outcome, build_mode, dgroup_max,
                   dgroup_warn, content, warnings, dgroup_size, segments, symbols,
                   overlay_segments, success, exit_code>>

\* DumpVerbose recording a warning for what it lists
DumpVerbose_warns ==
    /\ pc = "verbose"
    /\ sections' = sections \o <<"Overlay Segments", "All Code Segments">>
    /\ warnings' = Append(warnings, Rec("verbose", "listing", "", "", <<>>))
    /\ pc' = "summary"
    /\ UNCHANGED <<previous_run, summary_headroom, argv, fileState, fileText, outcome,
                   build_mode, dgroup_max, dgroup_warn, content, errors, dgroup_size,
                   segments, symbols, overlay_segments, composition, success, exit_code>>

\* dump_verbose, lines 411-419
DumpVerbose ==
    /\ pc = "verbose"
    /\ sections' = sections \o <<"Overlay Segments", "All Code Segments">>
    /\ pc' = "summary"
    /\ UNCHANGED <<previous_run, summary_headroom, argv, fileState, fileText, outcome, build_mode, dgroup_max,
                   dgroup_warn, content, errors, warnings, dgroup_size, segments,
                   symbols, overlay_segments, composition, success, exit_code>>

\* print_summary, lines 381-409, and main, lines 465-466
PrintSummary ==
    /\ pc = "summary"
    /\ sections' = Append(sections, "VERIFICATION SUMMARY")
    /\ success' = summary_result(errors, warnings)
    /\ exit_code' = exit_status(summary_result(errors, warnings))
    /\ summary_headroom' = headroom_of(dgroup_size)
    /\ outcome' = "summary"
    /\ pc' = "exit"
    /\ UNCHANGED <<previous_run, argv, fileState, fileText, build_mode, dgroup_max,
                   dgroup_warn,
                   content, errors, warnings, dgroup_size, segments, symbols,
                   overlay_segments, composition>>

Next ==
    \/ Usage
    \/ Construct
    \/ ParseNotFound
    \/ ParseUnreadable
    \/ Parse
    \/ VerifyDgroupSize
    \/ VerifyRequiredSymbols
    \/ VerifyRequiredSegments
    \/ VerifyOptionalSymbols
    \/ VerifyForbiddenInOverlay
    \/ VerifyDgroupFolding
    \/ DumpVerbose
    \/ PrintSummary

Spec == Init /\ [][Next]_vars

(* Two runs over the same file.  When a run that named a map file has      *)
(* ended, the command is given again with --verbose taken out of the       *)
(* arguments if it was there and added if it was not; the new process      *)
(* starts from the state of Init and the file on disk is as it was.  What  *)
(* the first run ended with is kept for comparison.                        *)

toggle_verbose(args) ==
    IF \E i \in 1..Len(args) : args[i] = "--verbose"
    THEN SelectSeq(args, LAMBDA a : a # "--verbose")
    ELSE Append(args, "--verbose")

RunAgainToggled ==
    /\ pc = "exit"
    /\ Len(previous_run) = 0
    /\ Len(argv) >= 1
    /\ previous_run' = << [argv |-> argv, build_mode |-> build_mode, outcome |-> outcome,
                           errors |-> errors, warnings |-> warnings,
                           exit_code |-> exit_code] >>
    /\ argv' = toggle_verbose(argv)
    /\ pc' = "main"
    /\ outcome' = "running"
    /\ build_mode' = ""
    /\ dgroup_max' = 0
    /\ dgroup_warn' = 0
    /\ content' = <<>>
    /\ errors' = <<>>
    /\ warnings' = <<>>
    /\ dgroup_size' = 0
    /\ segments' = <<>>
    /\ symbols' = <<>>
    /\ overlay_segments' = {}
    /\ sections' = <<>>
    /\ composition' = <<>>
    /\ summary_headroom' = -1
    /\ success' = FALSE
    /\ exit_code' = -1
    /\ UNCHANGED <<fileState, fileText>>

NextTwoRuns ==
    \/ Next
    \/ RunAgainToggled

SpecTwoRuns == Init /\ [][NextTwoRuns]_vars

-----------------------------------------------------------------------------
(* Vocabulary of the properties.                                           *)

\* the section with this heading has been written: the rule has run
Ran(heading) == \E i \in 1..Len(sections) : sections[i] = heading

\* how many records of seq come from rule, are of kind and name subject
CountRecs(seq, rule, kind, subject) ==
    Cardinality({i \in 1..Len(seq) :
        seq[i].rule = rule /\ seq[i].kind = kind /\ seq[i].subject = subject})

\* how many records of seq come from rule
CountRule(seq, rule) == Cardinality({i \in 1..Len(seq) : seq[i].rule = rule})

\* how many records of seq come from rule and name subject
CountSubject(seq, rule, subject) ==
    Cardinality({i \in 1..Len(seq) : seq[i].rule = rule /\ seq[i].subject = subject})

SymbolPresent(name) == \E i \in 1..Len(symbols) : symbols[i].key = name
SymbolOverlaid(name) ==
    \E i \in 1..Len(symbols) :
        symbols[i].key = name /\ is_symbol_in_overlay(symbols[i].value)

SegmentPresent(name) == \E i \in 1..Len(segments) : segments[i].key = name
SegmentHas(name, group, class) ==
    \E i \in 1..Len(segments) :
        /\ segments[i].key = name
        /\ segments[i].value.group = group
        /\ segments[i].value.class = class

SegmentClassIs(name, class) ==
    \E i \in 1..Len(segments) :
        segments[i].key = name /\ segments[i].value.class = class

\* positions in list of the names that are in the symbol table
PresentAt(list) == {i \in 1..Len(list) : SymbolPresent(list[i])}
FirstOf(S) == CHOOSE i \in S : \A j \in S : i <= j
LastOf(S) == CHOOSE i \in S : \A j \in S : j <= i

-----------------------------------------------------------------------------
(* C1: in every run that reaches the final summary the verdict is pass     *)
(* exactly when the error list is empty, and the exit status is 0 exactly  *)
(* when the verdict is pass and 1 otherwise, whatever the warnings.        *)
C1_VerdictIffNoErrors ==
    outcome = "summary" =>
        /\ success <=> (Len(errors) = 0)
        /\ exit_code = (IF success THEN 0 ELSE 1)

\* a run that passes, with exit status 0, although it recorded warnings
C1_Witness ==
    /\ outcome = "summary"
    /\ Len(errors) = 0
    /\ Len(warnings) > 0
    /\ success
    /\ exit_code = 0

-----------------------------------------------------------------------------
(* C2 as stated: once the required-symbol rule has run, for every group    *)
(* with an alias in the symbol table the first such alias in declared      *)
(* order decides alone: the group has its 'found but in overlay' error     *)
(* exactly when that alias is in overlay.                                  *)
C2_FirstPresentAliasDecides ==
    Ran("Checking Required Symbols") =>
        \A g \in 1..Len(REQUIRED_SYMBOLS) :
            LET list == REQUIRED_SYMBOLS[g].symbols
                name == REQUIRED_SYMBOLS[g].group
            IN  PresentAt(list) # {} =>
                    (SymbolOverlaid(list[FirstOf(PresentAt(list))])
                       <=> CountRecs(errors, "required_symbols", "in_overlay", name) = 1)

(* C2 amended: the scan goes on past aliases that are in overlay.  A group *)
(* with a present alias that is not in overlay passes (no error), even     *)
(* when an earlier alias is present and in overlay; a group with at least  *)
(* one present alias, all of them in overlay, gets exactly one 'found but  *)
(* in overlay' error, which names the last present alias.                  *)
C2_AnyResidentAliasPasses ==
    Ran("Checking Required Symbols") =>
        \A g \in 1..Len(REQUIRED_SYMBOLS) :
            LET list == REQUIRED_SYMBOLS[g].symbols
                name == REQUIRED_SYMBOLS[g].group
                present == PresentAt(list)
            IN  /\ (\E i \in present : ~SymbolOverlaid(list[i]))
                      => CountSubject(errors, "required_symbols", name) = 0
                /\ (present # {} /\ \A i \in present : SymbolOverlaid(list[i]))
                      => /\ CountSubject(errors, "required_symbols", name) = 1
                         /\ \E k \in 1..Len(errors) :
                               errors[k] = Rec("required_symbols", "in_overlay", name,
                                               list[LastOf(present)], <<>>)

\* the first alias of packet_api is in overlay, a later one is resident, and
\* the group passed
C2_Witness ==
    /\ Ran("Checking Required Symbols")
    /\ SymbolOverlaid("packet_driver_isr")
    /\ SymbolPresent("_packet_driver_isr")
    /\ ~SymbolOverlaid("_packet_driver_isr")
    /\ CountSubject(errors, "required_symbols", "packet_api") = 0

-----------------------------------------------------------------------------
(* C3: once the required-symbol rule has run, every group has at most one  *)
(* error record; it has the 'no symbol found' error exactly when none of   *)
(* its aliases is in the symbol table; no group has both kinds of error.   *)
C3_OneErrorPerGroup ==
    Ran("Checking Required Symbols") =>
        \A g \in 1..Len(REQUIRED_SYMBOLS) :
            LET list == REQUIRED_SYMBOLS[g].symbols
                name == REQUIRED_SYMBOLS[g].group
            IN  /\ CountSubject(errors, "required_symbols", name) <= 1
                /\ CountRecs(errors, "required_symbols", "no_symbol", name) = 1
                      <=> PresentAt(list) = {}
                /\ ~(/\ CountRecs(errors, "required_symbols", "no_symbol", name) > 0
                     /\ CountRecs(errors, "required_symbols", "in_overlay", name) > 0)
                /\ CountSubject(warnings, "required_symbols", name) = 0

\* the only present alias of packet_api sits at a declared overlay base
\* address: 'found but in overlay' alone
C3_Witness ==
    /\ Ran("Checking Required Symbols")
    /\ PresentAt(REQUIRED_SYMBOLS[1].symbols) = {1}
    /\ SymbolOverlaid("packet_driver_isr")
    /\ CountRecs(errors, "required_symbols", "in_overlay", "packet_api") = 1
    /\ CountRecs(errors, "required_symbols", "no_symbol", "packet_api") = 0

-----------------------------------------------------------------------------
\* the limits the command line help states for each mode, lines 431-437
StatedMax(mode) ==
    CASE mode = "production" -> \hE000
      [] mode = "release" -> \hE800
      [] OTHER -> \h10000
StatedWarn(mode) ==
    CASE mode = "production" -> \hD800
      [] mode = "release" -> \hE000
      [] OTHER -> \hF200

(* C4: once the size rule has run: size 0 gives one warning and no error;  *)
(* size >= max of the mode gives exactly one error and no warning;         *)
(* warn <= size < max gives exactly one warning and no error; any other    *)
(* size gives no record.  Never an error and a warning together; 0xE900    *)
(* in production mode gives one error and no warning.                      *)
C4_SizeDecisionTable ==
    Ran("Checking DGROUP Size") =>
        LET e == CountRule(errors, "dgroup_size")
            w == CountRule(warnings, "dgroup_size")
            max == StatedMax(build_mode)
            warn == StatedWarn(build_mode)
        IN  /\ dgroup_size = 0 => e = 0 /\ w = 1
            /\ dgroup_size >= max => e = 1 /\ w = 0
            /\ (warn <= dgroup_size /\ dgroup_size < max) => e = 0 /\ w = 1
            /\ (0 < dgroup_size /\ dgroup_size < warn) => e = 0 /\ w = 0
            /\ ~(e > 0 /\ w > 0)
            /\ (build_mode = "production" /\ dgroup_size = \hE900) => e = 1 /\ w = 0

\* 0xE900 in production mode: one critical error, no size warning
C4_Witness ==
    /\ Ran("Checking DGROUP Size")
    /\ build_mode = "production"
    /\ dgroup_size = \hE900
    /\ CountRecs(errors, "dgroup_size", "exceeds", "DGROUP") = 1
    /\ CountRule(warnings, "dgroup_size") = 0

-----------------------------------------------------------------------------
\* mode strings MapVerifier can be constructed with, recognised or not
ModeStrings == {"debug", "release", "production", "", "DEBUG", "Release", "fast"}

(* C5: for every mode string, recognised or not, the thresholds __init__   *)
(* selects satisfy warn <= max <= 0x10000, an unrecognised string selects  *)
(* the debug thresholds, and every constructed verifier holds the          *)
(* thresholds of its mode.                                                 *)
C5_ThresholdsOrdered ==
    /\ \A m \in ModeStrings :
          /\ init_dgroup_warn(m) <= init_dgroup_max(m)
          /\ init_dgroup_max(m) <= \h10000
          /\ m \notin {"release", "production"} =>
                /\ init_dgroup_max(m) = init_dgroup_max("debug")
                /\ init_dgroup_warn(m) = init_dgroup_warn("debug")
    /\ build_mode # "" =>
          /\ dgroup_warn <= dgroup_max
          /\ dgroup_max <= \h10000
          /\ dgroup_max = init_dgroup_max(build_mode)
          /\ dgroup_warn = init_dgroup_warn(build_mode)

\* a verifier constructed for a release build holds the release thresholds
C5_Witness ==
    /\ build_mode = "release"
    /\ dgroup_warn = \hE000
    /\ dgroup_max = \hE800
    /\ pc = "parse"

-----------------------------------------------------------------------------
\* the segment names the catalogs and the segment table speak of
SegmentNames ==
    {segments[i].key : i \in 1..Len(segments)}
      \cup {REQUIRED_ROOT_SEGMENTS[i].name : i \in 1..Len(REQUIRED_ROOT_SEGMENTS)}

(* C6: in every state, is_segment_root is unknown (None) exactly for the    *)
(* names absent from the segment table; for a name in the table it is true *)
(* exactly when the group is AUTO and the class is CODE.  A DGROUP/CODE    *)
(* segment and an AUTO segment of another class are both non-root.         *)
C6_SegmentIsRootTriState ==
    \A n \in SegmentNames :
        /\ is_segment_root(n) = "None" <=> ~SegmentPresent(n)
        /\ is_segment_root(n) = "True" <=> SegmentHas(n, "AUTO", "CODE")
        /\ is_segment_root(n) \in {"None", "True", "False"}
        /\ SegmentHas(n, "DGROUP", "CODE") => is_segment_root(n) = "False"
        /\ (\E c \in SEGMENT_CLASSES \ {"CODE"} : SegmentHas(n, "AUTO", c))
              => is_segment_root(n) = "False"

\* a table with a DGROUP/CODE segment and an AUTO/_OVLCODE segment, both
\* classified non-root by the rule that has used the predicate
C6_Witness ==
    /\ Ran("Checking Required ROOT Segments")
    /\ SegmentHas("_TEXT", "DGROUP", "CODE")
    /\ SegmentHas("rt_stubs_TEXT", "AUTO", "_OVLCODE")
    /\ is_segment_root("_TEXT") = "False"
    /\ is_segment_root("rt_stubs_TEXT") = "False"

-----------------------------------------------------------------------------
-----------------------------------------------------------------------------
\* the three spellings of an advisory name, as the rule is described: the
\* name, the name without its trailing separator, the name with one appended
Spellings(name) ==
    << name,
       IF EndsWith(name, "_") THEN SubSeq(name, 1, Len(name) - 1) ELSE name,
       name \o "_" >>

\* the optional-symbol errors that name one of the spellings in list
SpellingErrors(list) ==
    {k \in 1..Len(errors) :
        /\ errors[k].rule = "optional_symbols"
        /\ \E i \in 1..Len(list) : errors[k].subject = list[i]}

(* C8: once the optional-symbol rule has run, for every advisory name the  *)
(* first spelling in the symbol table decides alone: exactly one error,    *)
(* naming that spelling, when it is in overlay; no record when it is not   *)
(* in overlay or when no spelling is present.                              *)
C8_FirstSpellingDecides ==
    Ran("Checking Optional Symbols") =>
        /\ CountRule(warnings, "optional_symbols") = 0
        /\ \A n \in 1..Len(OPTIONAL_SYMBOLS) :
            LET list == Spellings(OPTIONAL_SYMBOLS[n])
                present == PresentAt(list)
            IN  IF present # {} /\ SymbolOverlaid(list[FirstOf(present)])
                THEN /\ Cardinality(SpellingErrors(list)) = 1
                     /\ \A k \in SpellingErrors(list) :
                           errors[k].subject = list[FirstOf(present)]
                ELSE SpellingErrors(list) = {}

\* log_info_ is resident, its later spelling log_info is in overlay, and the
\* name has no record
C8_Witness ==
    /\ Ran("Checking Optional Symbols")
    /\ SymbolPresent("log_info_")
    /\ ~SymbolOverlaid("log_info_")
    /\ SymbolOverlaid("log_info")
    /\ SpellingErrors(Spellings("log_info_")) = {}

-----------------------------------------------------------------------------
\* the segment each forbidden module is expected in: base name plus _TEXT
DerivedSegment(obj) ==
    CASE obj = "rt_stubs.obj" -> "rt_stubs_TEXT"
      [] obj = "3cvortex.obj" -> "3cvortex_TEXT"
      [] obj = "3cboom.obj" -> "3cboom_TEXT"

(* C9: once the forbidden-overlay rule has run, every catalog module has   *)
(* exactly one error when its derived segment is in the table with class   *)
(* _OVLCODE, no error when the segment has another class, and neither an   *)
(* error nor a warning when the segment is absent.                         *)
C9_ForbiddenOverlayTable ==
    Ran("Checking Forbidden Overlay Placements") =>
        /\ CountRule(warnings, "forbidden_in_overlay") = 0
        /\ \A k \in 1..Len(FORBIDDEN_IN_OVERLAY) :
            LET obj == FORBIDDEN_IN_OVERLAY[k]
                e == CountSubject(errors, "forbidden_in_overlay", obj)
            IN  e = (IF SegmentClassIs(DerivedSegment(obj), "_OVLCODE") THEN 1 ELSE 0)

\* rt_stubs_TEXT is in the table with class _OVLCODE: one error for rt_stubs.obj
C9_Witness ==
    /\ Ran("Checking Forbidden Overlay Placements")
    /\ SegmentHas("rt_stubs_TEXT", "AUTO", "_OVLCODE")
    /\ CountRecs(errors, "forbidden_in_overlay", "in_overlay", "rt_stubs.obj") = 1
    /\ CountSubject(errors, "forbidden_in_overlay", "3cvortex.obj") = 0

-----------------------------------------------------------------------------
\* the table entries in DGROUP whose name holds an overlay or init marker
MarkedDgroupSegments ==
    {i \in 1..Len(segments) :
        /\ segments[i].value.group = "DGROUP"
        /\ (str_in("OVL_", segments[i].key) \/ str_in("INIT_", segments[i].key))}

(* C10: once the folding rule has run, the number of folding errors is the *)
(* number of segments in DGROUP whose name contains OVL_ or INIT_, one     *)
(* error per such segment, naming it, also when the name contains both     *)
(* markers; a marker-named segment of another group has none.              *)
C10_FoldingErrorsCount ==
    Ran("Checking DGROUP Composition") =>
        /\ CountRule(errors, "dgroup_folding") = Cardinality(MarkedDgroupSegments)
        /\ \A i \in 1..Len(segments) :
              CountSubject(errors, "dgroup_folding", segments[i].key)
                 = (IF i \in MarkedDgroupSegments THEN 1 ELSE 0)

\* OVL_INIT_DATA, with both markers, is in DGROUP and has one error; OVL_DATA
\* is in another group and has none
C10_Witness ==
    /\ Ran("Checking DGROUP Composition")
    /\ \E c \in SEGMENT_CLASSES : SegmentHas("OVL_INIT_DATA", "DGROUP", c)
    /\ CountSubject(errors, "dgroup_folding", "OVL_INIT_DATA") = 1
    /\ SegmentPresent("OVL_DATA")
    /\ CountSubject(errors, "dgroup_folding", "OVL_DATA") = 0

-----------------------------------------------------------------------------
\* the headings of the six rules and the rule names of their records, in
\* the order main calls them
RuleHeadings ==
    << "Checking DGROUP Size", "Checking Required Symbols",
       "Checking Required ROOT Segments", "Checking Optional Symbols",
       "Checking Forbidden Overlay Placements", "Checking DGROUP Composition" >>
RuleNames ==
    << "dgroup_size", "required_symbols", "required_segments", "optional_symbols",
       "forbidden_in_overlay", "dgroup_folding" >>
RuleIndex(rule) == CHOOSE i \in 1..Len(RuleNames) : RuleNames[i] = rule

IsRuleHeading(h) == \E i \in 1..Len(RuleHeadings) : RuleHeadings[i] = h
IsPrefix(a, b) == Len(a) <= Len(b) /\ SubSeq(b, 1, Len(a)) = a

\* the records of seq come rule by rule, in the order of the rules
InRuleOrder(seq) ==
    \A i, j \in 1..Len(seq) :
        i < j => RuleIndex(seq[i].rule) <= RuleIndex(seq[j].rule)

\* the state part of C11
RulesRunInOrder ==
    /\ IsPrefix(SelectSeq(sections, IsRuleHeading), RuleHeadings)
    /\ outcome = "summary" => SelectSeq(sections, IsRuleHeading) = RuleHeadings
    /\ (pc \notin {"main", "parse", "exit"}) => outcome = "running"
    /\ outcome \in {"running", "summary"} =>
          InRuleOrder(errors) /\ InRuleOrder(warnings)

(* C11: after a successful parse the six rules run once each, in the order *)
(* size, required symbols, required segments, optional symbols, forbidden  *)
(* overlay, folding, whatever was recorded before; the error list holds    *)
(* the records rule by rule in that order, and no step removes or reorders *)
(* a record: the lists only grow at the end.                               *)
C11_AllRulesRunInOrder ==
    /\ []RulesRunInOrder
    /\ [][IsPrefix(errors, errors') /\ IsPrefix(warnings, warnings')]_vars

\* a run in which every one of the six rules has recorded an error and the
\* summary is reached
C11_Witness ==
    /\ outcome = "summary"
    /\ \A i \in 1..Len(RuleNames) : CountRule(errors, RuleNames[i]) >= 1
    /\ InRuleOrder(errors)

-----------------------------------------------------------------------------
(* C12: when the map file cannot be read, the run ends with a fatal error  *)
(* recorded, no rule executed, the segment table, the symbol table and the *)
(* overlay set empty, dgroup_size 0, and exit status 1.                    *)
C12_UnreadableFileIsFatal ==
    (fileState # "ok" /\ pc = "exit" /\ outcome # "usage") =>
        /\ \E k \in 1..Len(errors) : errors[k].rule = "parse"
        /\ SelectSeq(sections, IsRuleHeading) = <<>>
        /\ segments = <<>>
        /\ symbols = <<>>
        /\ overlay_segments = {}
        /\ dgroup_size = 0
        /\ exit_code = 1

-----------------------------------------------------------------------------
-----------------------------------------------------------------------------
\* the options main looks for, lines 442-462
KnownOptions == {"--production", "--release", "--debug", "--verbose"}

\* no map file path, or an option main does not know
InvalidInvocation ==
    \/ Len(argv) < 1
    \/ \E i \in 2..Len(argv) : argv[i] \notin KnownOptions

(* C15: an invalid invocation (no map file path, or an unrecognised        *)
(* option) exits at once with status 1: the verifier never parses and no   *)
(* rule runs.                                                              *)
C15_InvalidInvocationExits ==
    InvalidInvocation =>
        /\ pc \in {"main", "exit"}
        /\ pc = "exit" => (outcome = "usage" /\ exit_code = 1)
        /\ SelectSeq(sections, IsRuleHeading) = <<>>

-----------------------------------------------------------------------------
(* C16: every run that has ended has reached the final summary or an       *)
(* explicit early message (usage, fatal parse failure); a fatal end has an *)
(* error record and a nonzero exit status; no run ends in an unhandled     *)
(* failure.                                                                *)
C16_EveryEndIsExplained ==
    pc = "exit" =>
        /\ outcome \in {"summary", "usage", "fatal"}
        /\ outcome = "fatal" => (Len(errors) > 0 /\ exit_code # 0)
        /\ outcome = "usage" => exit_code # 0

-----------------------------------------------------------------------------
\* offsets to put in place of a symbol's own
OffsetPool == {"1A2B", "FFFF"}

\* the overlay bases the map declares, upper-cased
DeclaredBases ==
    {upper(content[j].seg) : j \in {k \in 1..Len(content) : content[k].kind = "overlay"}}

(* C17: for every symbol of the table, is_symbol_in_overlay is true        *)
(* exactly when some overlay line of the map declares a base that equals   *)
(* the symbol's segment once both are upper-cased, and giving the symbol   *)
(* any other offset leaves the answer as it is.                            *)
C17_SymbolInOverlayIffBaseMember ==
    (pc \notin {"main", "parse"}) =>
        LET bases == DeclaredBases
        IN  \A i \in 1..Len(symbols) :
                LET answer == is_symbol_in_overlay(symbols[i].value)
                IN  /\ answer <=> upper(symbols[i].value.segment) \in bases
                    /\ \A off \in OffsetPool :
                          is_symbol_in_overlay(
                              [symbols[i].value EXCEPT
                                  !.offset = off,
                                  !.full_addr = symbols[i].value.segment \o ":" \o off])
                            <=> answer

\* a symbol at 1a2b is in overlay by the base declared as 1A2B, and a symbol
\* whose offset spells the base is not
C17_Witness ==
    /\ pc = "exit"
    /\ overlay_segments = {"1A2B"}
    /\ \E i \in 1..Len(symbols) :
          /\ symbols[i].value.segment = "1a2b"
          /\ is_symbol_in_overlay(symbols[i].value)
    /\ \E j \in 1..Len(content) : content[j].kind = "overlay" /\ content[j].seg = "1A2B"
    /\ \E i \in 1..Len(symbols) :
          /\ symbols[i].value.segment = "0000"
          /\ ~is_symbol_in_overlay(symbols[i].value)

-----------------------------------------------------------------------------
\* positions of the lines of the map that the segment pattern matches
SegmentLinesAt ==
    {j \in 1..Len(content) :
        content[j].kind = "segment" /\ content[j].class \in SEGMENT_CLASSES}

\* positions of the lines of the map that the symbol pattern matches
SymbolLinesAt == {j \in 1..Len(content) : content[j].kind = "symbol"}

\* j is the last position of S whose line carries name
IsLastNamed(S, j, name) ==
    /\ j \in S
    /\ content[j].name = name
    /\ \A k \in S : content[k].name = name => k <= j

(* C18: when parse returns, the segment table has exactly one entry for    *)
(* each name carried by a recognised segment line and the entry holds the  *)
(* data of the last such line; the symbol table likewise; and parsing has  *)
(* recorded no error and no warning.                                       *)
C18_LastWriteWins ==
    (pc = "size") =>
        /\ \A i \in 1..Len(segments) :
              \E j \in SegmentLinesAt :
                  /\ IsLastNamed(SegmentLinesAt, j, segments[i].key)
                  /\ segments[i].value.class = content[j].class
                  /\ segments[i].value.group = content[j].group
                  /\ segments[i].value.address = content[j].seg \o ":" \o content[j].off
                  /\ segments[i].value.size = int16(content[j].size)
        /\ \A j \in SegmentLinesAt : SegmentPresent(content[j].name)
        /\ \A i1, i2 \in 1..Len(segments) :
              segments[i1].key = segments[i2].key => i1 = i2
        /\ \A i \in 1..Len(symbols) :
              \E j \in SymbolLinesAt :
                  /\ IsLastNamed(SymbolLinesAt, j, symbols[i].key)
                  /\ symbols[i].value.segment = content[j].seg
                  /\ symbols[i].value.offset = content[j].off
                  /\ symbols[i].value.full_addr = content[j].seg \o ":" \o content[j].off
        /\ \A j \in SymbolLinesAt : SymbolPresent(content[j].name)
        /\ \A i1, i2 \in 1..Len(symbols) :
              symbols[i1].key = symbols[i2].key => i1 = i2
        /\ errors = <<>>
        /\ warnings = <<>>

\* a segment name and a symbol name each came twice with different data, and
\* the tables hold the later data
C18_Witness ==
    /\ pc = "size"
    /\ \E j, k \in SegmentLinesAt :
          /\ j < k
          /\ content[j].name = "rt_stubs_TEXT"
          /\ content[k].name = "rt_stubs_TEXT"
          /\ content[j].class = "_OVLCODE"
          /\ content[k].class = "CODE"
    /\ SegmentHas("rt_stubs_TEXT", "AUTO", "CODE")
    /\ \E j, k \in SymbolLinesAt :
          /\ j < k
          /\ content[j].name = "packet_driver_isr"
          /\ content[k].name = "packet_driver_isr"
          /\ content[j].seg = "1A2B"
          /\ content[k].seg = "0000"
    /\ \E i \in 1..Len(symbols) :
          symbols[i].key = "packet_driver_isr" /\ symbols[i].value.segment = "0000"
    /\ Len(segments) < Cardinality(SegmentLinesAt)
    /\ Len(symbols) < Cardinality(SymbolLinesAt)

-----------------------------------------------------------------------------
\* positions in the segment table of the segments of group DGROUP
DgroupEntries == {i \in 1..Len(segments) : segments[i].value.group = "DGROUP"}

\* name is shown in the composition listing
Listed(name) == \E k \in 1..Len(composition) : composition[k].name = name

(* C19: once the folding rule has run, the composition listing shows       *)
(* min(5, n) of the n DGROUP segments of the table, each once and with its *)
(* size, in order of non-increasing size, and no segment left out is       *)
(* larger than one shown.                                                  *)
C19_CompositionTopFive ==
    Ran("Checking DGROUP Composition") =>
        /\ Len(composition) =
              IF Cardinality(DgroupEntries) < 5 THEN Cardinality(DgroupEntries) ELSE 5
        /\ \A k \in 1..Len(composition) :
              \E i \in DgroupEntries :
                  /\ segments[i].key = composition[k].name
                  /\ segments[i].value.size = composition[k].size
        /\ \A k1, k2 \in 1..Len(composition) :
              /\ k1 < k2 => composition[k1].size >= composition[k2].size
              /\ composition[k1].name = composition[k2].name => k1 = k2
        /\ \A i \in DgroupEntries :
              ~Listed(segments[i].key) =>
                  \A k \in 1..Len(composition) :
                      composition[k].size >= segments[i].value.size

\* seven DGROUP segments, five shown, two smaller ones left out
C19_Witness ==
    /\ Ran("Checking DGROUP Composition")
    /\ Cardinality(DgroupEntries) = 7
    /\ Len(composition) = 5
    /\ composition[1].name = "_BSS"
    /\ composition[5].size = \h100
    /\ ~Listed("XIB")
    /\ ~Listed("CONST2")
    /\ \E i \in 1..Len(segments) : segments[i].value.group # "DGROUP"

-----------------------------------------------------------------------------
(* C20: once parse has returned, no step of the run (the six rules, the    *)
(* verbose dump, the summary) changes the segment table, the symbol table, *)
(* the overlay set, dgroup_size, the map text or the mode and its          *)
(* thresholds.                                                             *)
C20_ParsedDataImmutable ==
    [][pc \notin {"main", "parse"} =>
          UNCHANGED <<segments, symbols, overlay_segments, dgroup_size, content,
                      build_mode, dgroup_max, dgroup_warn>>]_vars

\* a run with errors has passed the rules, the verbose dump and the summary,
\* and the tables are still what parse made of the map
C20_Witness ==
    /\ outcome = "summary"
    /\ Ran("All Code Segments")
    /\ Len(errors) > 0
    /\ Len(segments) > 0
    /\ Len(symbols) > 0
    /\ overlay_segments # {}
    /\ dgroup_size > 0
    /\ segments = parse_all_segments(fileText, <<>>)
    /\ symbols = parse_symbol_table(fileText, <<>>)
    /\ overlay_segments = identify_overlay_segments(fileText)
    /\ dgroup_size = parse_dgroup_size(fileText)

-----------------------------------------------------------------------------
\* the arguments of the command line, without their order
ArgSet == {argv[i] : i \in 1..Len(argv)}

ModeFlags == {"--production", "--release", "--debug"}

(* C21: in every state of a run past the choice of the mode: without a     *)
(* mode flag the mode is debug; with --production among the arguments it   *)
(* is production, whatever else is given and in whatever order; with       *)
(* --release and no --production it is release; the thresholds are those   *)
(* of that one mode from the construction to the end of the run.           *)
C21_ModeSelection ==
    (pc # "main" /\ outcome # "usage") =>
        /\ ArgSet \cap ModeFlags = {} => build_mode = "debug"
        /\ "--production" \in ArgSet => build_mode = "production"
        /\ ("--release" \in ArgSet /\ "--production" \notin ArgSet) =>
              build_mode = "release"
        /\ ArgSet \cap ModeFlags = {"--debug"} => build_mode = "debug"
        /\ dgroup_max = StatedMax(build_mode)
        /\ dgroup_warn = StatedWarn(build_mode)

\* --release given before --production: the run ends under production limits
C21_Witness ==
    /\ outcome = "summary"
    /\ argv = <<MapPath, "--release", "--production">>
    /\ build_mode = "production"
    /\ dgroup_max = \hE000
    /\ dgroup_warn = \hD800

-----------------------------------------------------------------------------
\* the size rule of a verifier constructed for mode records an error for size
SizeErrorIn(mode, size) ==
    dgroup_size_branch(size, init_dgroup_max(mode), init_dgroup_warn(mode)) = "exceeds"

\* the size rule of a verifier constructed for mode records nothing for size
SizeCleanIn(mode, size) ==
    dgroup_size_branch(size, init_dgroup_max(mode), init_dgroup_warn(mode)) = "ok"

(* C22: for the size a run has read, once its size rule has run: the rule  *)
(* has recorded an error exactly when the size is an error in the mode of  *)
(* the run, and nothing exactly when the size is clean in that mode; an    *)
(* error in debug is an error in release, an error in release is an error  *)
(* in production; clean in production is clean in release, clean in        *)
(* release is clean in debug.                                              *)
C22_ModesMonotone ==
    Ran("Checking DGROUP Size") =>
        /\ CountRule(errors, "dgroup_size") > 0 <=> SizeErrorIn(build_mode, dgroup_size)
        /\ (CountRule(errors, "dgroup_size") = 0 /\ CountRule(warnings, "dgroup_size") = 0)
              <=> SizeCleanIn(build_mode, dgroup_size)
        /\ SizeErrorIn("debug", dgroup_size) => SizeErrorIn("release", dgroup_size)
        /\ SizeErrorIn("release", dgroup_size) => SizeErrorIn("production", dgroup_size)
        /\ SizeCleanIn("production", dgroup_size) => SizeCleanIn("release", dgroup_size)
        /\ SizeCleanIn("release", dgroup_size) => SizeCleanIn("debug", dgroup_size)

\* 0xE800 in a release run: an error there and in production, not in debug,
\* where the size is clean
C22_Witness ==
    /\ Ran("Checking DGROUP Size")
    /\ build_mode = "release"
    /\ dgroup_size = \hE800
    /\ CountRecs(errors, "dgroup_size", "exceeds", "DGROUP") = 1
    /\ SizeErrorIn("production", dgroup_size)
    /\ ~SizeErrorIn("debug", dgroup_size)
    /\ SizeCleanIn("debug", dgroup_size)

-----------------------------------------------------------------------------
(* C23: once the forbidden-overlay rule has run: if it recorded an error   *)
(* for rt_stubs.obj, the required-segment rule recorded exactly one error  *)
(* for rt_stubs_TEXT in the same run, so the run has at least two errors;  *)
(* and a rt_stubs_TEXT that is in the table, not root and not of class     *)
(* _OVLCODE has the required-segment error and no forbidden-overlay error. *)
C23_StubsInOverlayCountedTwice ==
    Ran("Checking Forbidden Overlay Placements") =>
        /\ CountSubject(errors, "forbidden_in_overlay", "rt_stubs.obj") > 0 =>
              /\ CountRecs(errors, "required_segments", "not_in_root", "rt_stubs_TEXT") = 1
              /\ CountSubject(errors, "forbidden_in_overlay", "rt_stubs.obj") = 1
              /\ Len(errors) >= 2
        /\ (SegmentPresent("rt_stubs_TEXT")
              /\ ~SegmentHas("rt_stubs_TEXT", "AUTO", "CODE")
              /\ ~SegmentClassIs("rt_stubs_TEXT", "_OVLCODE")) =>
              /\ CountRecs(errors, "required_segments", "not_in_root", "rt_stubs_TEXT") = 1
              /\ CountSubject(errors, "forbidden_in_overlay", "rt_stubs.obj") = 0

\* rt_stubs_TEXT of class _OVLCODE: the run ends with one error of each of
\* the two rules, both about the stubs
C23_Witness ==
    /\ outcome = "summary"
    /\ SegmentClassIs("rt_stubs_TEXT", "_OVLCODE")
    /\ CountRecs(errors, "forbidden_in_overlay", "in_overlay", "rt_stubs.obj") = 1
    /\ CountRecs(errors, "required_segments", "not_in_root", "rt_stubs_TEXT") = 1
    /\ CountRule(errors, "forbidden_in_overlay") = 1
    /\ CountRule(errors, "required_segments") = 1
    /\ exit_code = 1

-----------------------------------------------------------------------------
(* C24: when the second of two runs over the same file has ended, the two  *)
(* command lines differing only in --verbose, the two runs had the same    *)
(* build mode and ended the same way with the same error list, the same    *)
(* warning list and the same exit status.                                  *)
C24_VerboseObservationOnly ==
    (Len(previous_run) = 1 /\ pc = "exit") =>
        /\ InArgv("--verbose") #
              (\E i \in 1..Len(previous_run[1].argv) : previous_run[1].argv[i] = "--verbose")
        /\ build_mode = previous_run[1].build_mode
        /\ outcome = previous_run[1].outcome
        /\ errors = previous_run[1].errors
        /\ warnings = previous_run[1].warnings
        /\ exit_code = previous_run[1].exit_code

\* a release run without --verbose ended with errors and warnings; the run
\* with --verbose has made its dump and ended with the same
C24_Witness ==
    /\ Len(previous_run) = 1
    /\ outcome = "summary"
    /\ build_mode = "release"
    /\ previous_run[1].argv = <<MapPath, "--release">>
    /\ argv = <<MapPath, "--release", "--verbose">>
    /\ Ran("All Code Segments")
    /\ Len(errors) > 0
    /\ Len(warnings) > 0
    /\ errors = previous_run[1].errors
    /\ warnings = previous_run[1].warnings
    /\ exit_code = 1

=============================================================================
